---- MODULE Spec2Model ----
(***************************************************************************)
(* Model of the classic composition engine                                *)
(* (backend/services/classic_composer.py) together with the QoS utility   *)
(* (backend/utils/qos_calculator.py) and the data model                   *)
(* (backend/models/service.py).                                           *)
(*                                                                         *)
(* Numbers.  The source computes with Python floats.  The model computes  *)
(* with exact integers: a utility is held multiplied by UtilityScale      *)
(* (10^5), which makes every intermediate value of calculate_utility an   *)
(* integer for integer QoS values.                                        *)
(***************************************************************************)
EXTENDS Integers, Sequences, FiniteSets, TLC

(***************************************************************************)
(* Bounds of the model.                                                    *)
(***************************************************************************)
NumServices == 3

ServiceNames == <<"S1", "S2", "S3", "S4", "S5", "S6">>

Params == {"x", "y", "z"}

\* CompositionRequest.resultant before a Resultant element is read
\* (models/service.py:103).
NoneParam == "None"

(***************************************************************************)
(* QoS vectors (models/service.py, class QoS).                             *)
(***************************************************************************)
QoS(rt, av, th, su, re, co, bp, la, do) ==
    [response_time |-> rt, availability |-> av, throughput |-> th,
     successability |-> su, reliability |-> re, compliance |-> co,
     best_practices |-> bp, latency |-> la, documentation |-> do]

QoSKeys == {"ResponseTime", "Availability", "Throughput", "Successability",
            "Reliability", "Compliance", "BestPractices", "Latency",
            "Documentation"}

meets_constraints(q, constraints) ==
    [k \in QoSKeys |->
        CASE k = "ResponseTime"   -> q.response_time <= constraints.response_time
          [] k = "Availability"   -> q.availability >= constraints.availability
          [] k = "Throughput"     -> q.throughput >= constraints.throughput
          [] k = "Successability" -> q.successability >= constraints.successability
          [] k = "Reliability"    -> q.reliability >= constraints.reliability
          [] k = "Compliance"     -> q.compliance >= constraints.compliance
          [] k = "BestPractices"  -> q.best_practices >= constraints.best_practices
          [] k = "Latency"        -> q.latency <= constraints.latency
          [] k = "Documentation"  -> q.documentation >= constraints.documentation]

(***************************************************************************)
(* utils/qos_calculator.py                                                 *)
(***************************************************************************)
Min2(a, b) == IF a <= b THEN a ELSE b

Max2(a, b) == IF a >= b THEN a ELSE b

RECURSIVE SumOver(_, _)
SumOver(S, f) ==
    IF S = {} THEN 0
    ELSE LET e == CHOOSE e \in S : TRUE IN f[e] + SumOver(S \ {e}, f)

\* normalize(...) * (max_val - min_val): the division by (max_val - min_val)
\* is left to the caller's scale.
normalize(value, min_val, max_val, target_min, target_max) ==
    IF max_val = min_val THEN target_min
    ELSE target_min * (max_val - min_val)
         + (Max2(min_val, Min2(value, max_val)) - min_val)
           * (target_max - target_min)

\* normalize_inverse(...) * (max_val - min_val)
normalize_inverse(value, min_val, max_val, target_min, target_max) ==
    IF max_val = min_val THEN target_max
    ELSE target_min * (max_val - min_val)
         + ((max_val - min_val) - (Max2(min_val, Min2(value, max_val)) - min_val))
           * (target_max - target_min)

constraint_weights ==
    [k \in QoSKeys |->
        CASE k = "ResponseTime"   -> 12
          [] k = "Availability"   -> 12
          [] k = "Throughput"     -> 11
          [] k = "Successability" -> 11
          [] k = "Reliability"    -> 12
          [] k = "Compliance"     -> 11
          [] k = "BestPractices"  -> 10
          [] k = "Latency"        -> 11
          [] k = "Documentation"  -> 10]

UtilityScale == 100000

\* quality_score * 1000
quality_score(q) ==
      10 * normalize(q.availability, 0, 100, 0, 15)
    + 10 * normalize(q.reliability, 0, 100, 0, 15)
    + 10 * normalize(q.successability, 0, 100, 0, 15)
    + normalize(q.throughput, 0, 1000, 0, 10)
    + 10 * normalize(q.compliance, 0, 100, 0, 10)
    + 10 * normalize(q.best_practices, 0, 100, 0, 10)
    + 10 * normalize(q.documentation, 0, 100, 0, 5)
    + normalize_inverse(q.response_time, 0, 1000, 0, 10)
    + normalize_inverse(q.latency, 0, 1000, 0, 10)

conformity_score(qos_checks) ==
    SumOver({k \in QoSKeys : qos_checks[k]}, constraint_weights)

\* variant: the +25 tier starts at 90% instead of 80%
satisfaction_bonus_Shifted(met, total) ==
    IF met = total THEN 50
    ELSE IF 10 * met >= 9 * total THEN 25
    ELSE IF 10 * met >= 6 * total THEN 10
    ELSE 0

\* satisfaction_ratio = met / total, compared as 10 * met against tenths * total
satisfaction_bonus(met, total) ==
    IF met = total THEN 50
    ELSE IF 10 * met >= 8 * total THEN 25
    ELSE IF 10 * met >= 6 * total THEN 10
    ELSE 0

\* penalty_factor * 10
penalty_factor(met, total) ==
    IF 10 * met < 5 * total THEN 5
    ELSE IF 10 * met < 7 * total THEN 7
    ELSE IF met < total THEN 9
    ELSE 10

\* calculate_utility(...) * UtilityScale
calculate_utility(qos_achieved, qos_constraints, qos_checks) ==
    LET met_constraints == Cardinality({k \in QoSKeys : qos_checks[k]})
        total_constraints == Cardinality(QoSKeys)
        \* base_utility * 10^4 = quality*1000*4 + conformity*6000
        base_utility == 4 * quality_score(qos_achieved)
                        + 6000 * conformity_score(qos_checks)
        utility == base_utility * penalty_factor(met_constraints, total_constraints)
                   + satisfaction_bonus(met_constraints, total_constraints)
                     * UtilityScale
    IN Max2(utility, 0)

(***************************************************************************)
(* The inputs: service pools and requests.                                 *)
(***************************************************************************)
HighQoS == QoS(100, 95, 800, 95, 95, 90, 90, 50, 90)

MidQoS == QoS(400, 80, 400, 80, 70, 60, 60, 300, 40)

QoSList == <<HighQoS, MidQoS>>

QoSProfiles == {QoSList[i] : i \in DOMAIN QoSList}

\* thresholds: <= for response time and latency, >= for the other seven
ConstraintProfiles == {QoS(500, 75, 300, 75, 75, 50, 50, 400, 30)}

\* WebService signatures (inputs, outputs) a pool is drawn from
SignatureList ==
    << <<{"x"}, {"y"}>>, <<{"x"}, {"z"}>>, <<{"y"}, {"z"}>>,
       <<{"x", "y"}, {"z"}>>, <<{}, {"y"}>>, <<{"x"}, {"x"}>>,
       <<{"x"}, {"y", "z"}>> >>

NumShapes == Len(SignatureList) * Len(QoSList)

\* the n-th WebService shape, 1 <= n <= NumShapes
ShapeAt(n) ==
    [inputs |-> SignatureList[((n - 1) \div Len(QoSList)) + 1][1],
     outputs |-> SignatureList[((n - 1) \div Len(QoSList)) + 1][2],
     qos |-> QoSList[((n - 1) % Len(QoSList)) + 1]]

CompositionRequests ==
    [provided : {{"x"}, {"x", "z"}},
     resultant : {"z", NoneParam},
     qos_constraints : ConstraintProfiles]

VARIABLES
    pool,           \* ClassicComposer.service_dict: id -> WebService
    request,        \* the CompositionRequest of the compose call
    algorithm,      \* compose's algorithm argument
    pc,             \* "idle": before compose; "search": in a strategy's loop; "done"
    services_pool,  \* the relevant services, in the order the list holds them
    search,         \* the local variables of the running strategy
    cap_hit,        \* the loop was left by the deadline or the iteration ceiling
    result,         \* the CompositionResult compose returns
    prev,           \* what the caller saw of the previous compose call, if any
    app_state,      \* app.py: app_state['services'], app_state['classic_composer']
    threads         \* app.py: the locals of the threads that rebuild or use the composer

vars == <<pool, request, algorithm, pc, services_pool, search, cap_hit, result,
          prev, app_state, threads>>

\* the state outside one ClassicComposer.compose call
appvars == <<prev, app_state, threads>>

(***************************************************************************)
(* ClassicComposer.__init__: the indexes.                                  *)
(***************************************************************************)
_service_input_sets(sid) == pool[sid].inputs

_input_index(param) == {sid \in DOMAIN pool : param \in pool[sid].inputs}

_output_index(param) == {sid \in DOMAIN pool : param \in pool[sid].outputs}

(***************************************************************************)
(* ClassicComposer._get_relevant_services.  The two closures visit the     *)
(* frontier parameters and the indexed services one at a time, updating    *)
(* the sets in place, as the loops of the source do.                       *)
(***************************************************************************)
ForwardVisit(sid, st) ==
    IF sid \in st.ids THEN st
    ELSE IF _service_input_sets(sid) \subseteq st.params
    THEN LET new_out == pool[sid].outputs \ st.params
         IN [ids |-> st.ids \cup {sid},
             params |-> st.params \cup new_out,
             next_frontier |-> st.next_frontier \cup new_out]
    ELSE st

BackwardVisit(sid, st) ==
    IF sid \in st.ids THEN st
    ELSE LET new_inputs == (pool[sid].inputs \ st.params) \ request.provided
         IN [ids |-> st.ids \cup {sid},
             params |-> st.params \cup new_inputs,
             next_frontier |-> st.next_frontier \cup new_inputs]

\* `for s in index.get(param, [])`; a service already admitted is skipped
\* (`continue`, lines 46-47 and 65-66)
RECURSIVE VisitServices(_, _, _)
VisitServices(forward, sids, st) ==
    IF sids = {} THEN st
    ELSE LET sid == CHOOSE s \in sids : TRUE
         IN IF sid \in st.ids
            THEN VisitServices(forward, sids \ {sid}, st)
            ELSE VisitServices(forward, sids \ {sid},
                     IF forward THEN ForwardVisit(sid, st) ELSE BackwardVisit(sid, st))

RECURSIVE VisitFrontier(_, _, _)
VisitFrontier(forward, frontier, st) ==
    IF frontier = {} THEN st
    ELSE LET param == CHOOSE p \in frontier : TRUE
         IN VisitFrontier(forward, frontier \ {param},
                VisitServices(forward,
                    IF forward THEN _input_index(param) ELSE _output_index(param),
                    st))

RECURSIVE Closure(_, _, _)
Closure(forward, frontier, st) ==
    IF frontier = {} THEN st
    ELSE LET st2 == VisitFrontier(forward, frontier,
                                  [st EXCEPT !.next_frontier = {}])
         IN Closure(forward, st2.next_frontier, st2)

ForwardClosure ==
    Closure(TRUE, request.provided,
            [ids |-> {}, params |-> request.provided, next_frontier |-> {}])

BackwardClosure ==
    Closure(FALSE, {request.resultant},
            [ids |-> {}, params |-> {request.resultant}, next_frontier |-> {}])

\* variant: the filter without the early `return []` of line 57
_get_relevant_services_unchecked ==
    LET forward_ids == ForwardClosure.ids
        backward_ids == BackwardClosure.ids
        relevant_ids == forward_ids \cap backward_ids
    IN IF Cardinality(relevant_ids) < 3 THEN forward_ids \cup backward_ids
       ELSE relevant_ids

\* the ids of the list _get_relevant_services returns
_get_relevant_services ==
    LET forward_ids == ForwardClosure.ids
        reachable_params == ForwardClosure.params
        backward_ids == BackwardClosure.ids
        relevant_ids == forward_ids \cap backward_ids
    IN IF request.resultant \notin reachable_params THEN {}
       ELSE IF Cardinality(relevant_ids) < 3 THEN forward_ids \cup backward_ids
       ELSE relevant_ids

\* The list is built by iterating a Python set of str ids: its order is
\* whatever the interpreter's string hashing yields.
Enumerations(S) ==
    {sq \in [1..Cardinality(S) -> S] : \A e \in S : \E i \in DOMAIN sq : sq[i] = e}

(***************************************************************************)
(* utils/qos_calculator.py: aggregate_qos.  The three probabilities are    *)
(* products of value / 100, times 100: the product of the values divided   *)
(* by 100^(n - 1).  They are held as that product, the divisor being the   *)
(* field prob_den of the aggregate.                                        *)
(***************************************************************************)
\* QoS(): every attribute 0.0
DefaultQoS == QoS(0, 0, 0, 0, 0, 0, 0, 0, 0)

\* variant: the last value instead of the sum
SumSeq_Last(sq) == sq[Len(sq)]

RECURSIVE SumSeq(_)
SumSeq(sq) == IF sq = <<>> THEN 0 ELSE sq[1] + SumSeq(Tail(sq))

RECURSIVE ProductSeq(_)
ProductSeq(sq) == IF sq = <<>> THEN 1 ELSE sq[1] * ProductSeq(Tail(sq))

RECURSIVE MinOfSeq(_)
MinOfSeq(sq) ==
    IF Len(sq) = 1 THEN sq[1]
    ELSE IF sq[1] <= MinOfSeq(Tail(sq)) THEN sq[1] ELSE MinOfSeq(Tail(sq))

RECURSIVE Power(_, _)
Power(b, n) == IF n = 0 THEN 1 ELSE b * Power(b, n - 1)

\* aggregate_qos(services), the services given by their ids
aggregate_qos(services) ==
    LET n == Len(services)
        q == [i \in 1..n |-> pool[services[i]].qos]
    IN IF n = 0 THEN DefaultQoS @@ [prob_den |-> 1]
       ELSE IF n = 1 THEN q[1] @@ [prob_den |-> 1]
       ELSE [response_time  |-> SumSeq([i \in 1..n |-> q[i].response_time]),
             latency        |-> SumSeq([i \in 1..n |-> q[i].latency]),
             availability   |-> ProductSeq([i \in 1..n |-> q[i].availability]),
             reliability    |-> ProductSeq([i \in 1..n |-> q[i].reliability]),
             successability |-> ProductSeq([i \in 1..n |-> q[i].successability]),
             prob_den       |-> Power(100, n - 1),
             throughput     |-> MinOfSeq([i \in 1..n |-> q[i].throughput]),
             compliance     |-> MinOfSeq([i \in 1..n |-> q[i].compliance]),
             best_practices |-> MinOfSeq([i \in 1..n |-> q[i].best_practices]),
             documentation  |-> MinOfSeq([i \in 1..n |-> q[i].documentation])]

(***************************************************************************)
(* Helpers shared by the three strategies.                                 *)
(***************************************************************************)
service_utility(sid) ==
    calculate_utility(pool[sid].qos, request.qos_constraints,
                      meets_constraints(pool[sid].qos, request.qos_constraints))

SeqToSet(sq) == {sq[i] : i \in DOMAIN sq}

\* variant: the applicability test without the input-subset condition
Applicable_IgnoringInputs(sp, p, avail) ==
    LET Test(sid) == sid \notin SeqToSet(p)
    IN SelectSeq(sp, Test)

\* variant: the applicability test without the path condition
Applicable_Reusing(sp, p, avail) ==
    LET Test(sid) == _service_input_sets(sid) \subseteq avail
    IN SelectSeq(sp, Test)

\* applicable = [s for s in services_pool if s.id not in path_set
\*               and self._service_input_sets.get(s.id, frozenset()) <= available_params]
Applicable(sp, p, avail) ==
    LET Test(sid) == sid \notin SeqToSet(p) /\ _service_input_sets(sid) \subseteq avail
    IN SelectSeq(sp, Test)

Event(step, action) == [step |-> step, action |-> action]

\* variant: the greatest (priority, counter) pair is popped
HeapTop_Greatest(q) ==
    CHOOSE e \in q : \A o \in q :
        \/ e.priority > o.priority
        \/ e.priority = o.priority /\ e.counter >= o.counter

\* heapq.heappop: the least (priority, counter) pair; counters are unique
HeapTop(q) ==
    CHOOSE e \in q : \A o \in q :
        \/ e.priority < o.priority
        \/ e.priority = o.priority /\ e.counter <= o.counter

max_iterations == 500000

max_steps == 50

\* best_solution_utility = -float('inf'): below every utility (all are >= 0)
NegInf == -1

(***************************************************************************)
(* ClassicComposer._dijkstra_compose                                       *)
(***************************************************************************)
\* the search's local state right after the 'init' trace event (lines 228-257)
DijkstraInit ==
    [priority_queue |-> {[priority |-> 0, counter |-> 0, utility |-> 0,
                          path |-> <<>>, params |-> request.provided]},
     best_utilities |-> (request.provided :> 0),
     best_solution |-> <<>>,
     best_solution_utility |-> NegInf,
     iterations |-> 0,
     counter |-> 0,
     trace |-> <<Event(0, "init")>>]

\* variant: every successor is kept
DijkstraKeeps_Always(best, new_params_key, new_utility) == TRUE

\* variant: a successor of equal utility is kept too (`>` for `>=`)
DijkstraKeeps_OnTie(best, new_params_key, new_utility) ==
    ~(new_params_key \in DOMAIN best /\ best[new_params_key] > new_utility)

\* variant: only the first state recorded for a parameter set is kept
DijkstraKeeps_FirstOnly(best, new_params_key, new_utility) ==
    new_params_key \notin DOMAIN best

\* lines 319-326: the successor is dropped unless it strictly improves
DijkstraKeeps(best, new_params_key, new_utility) ==
    ~(new_params_key \in DOMAIN best /\ best[new_params_key] >= new_utility)

\* variant: the successor takes the best utility on its path
BottleneckUtility_Best(cur_utility, cur_path, su) ==
    IF cur_path = <<>> THEN su ELSE Max2(cur_utility, su)

\* variant: the successor takes the utility of its last service
BottleneckUtility_Last(cur_utility, cur_path, su) == su

\* bottleneck utility of the successor (line 317)
BottleneckUtility(cur_utility, cur_path, su) ==
    IF cur_path # <<>> THEN Min2(cur_utility, su) ELSE su

\* one pass of `for service in applicable` (lines 302-338), from index i on
RECURSIVE DijkstraExpand(_, _, _, _)
DijkstraExpand(applicable, i, cur, st) ==
    IF i > Len(applicable) THEN st
    ELSE
      LET sid == applicable[i]
          su == service_utility(sid)
          new_path == Append(cur.path, sid)
          new_params == cur.params \cup pool[sid].outputs
          new_utility == BottleneckUtility(cur.utility, cur.path, su)
      IN IF ~DijkstraKeeps(st.best_utilities, new_params, new_utility)
         THEN DijkstraExpand(applicable, i + 1, cur, st)
         ELSE DijkstraExpand(applicable, i + 1, cur,
                [st EXCEPT
                   !.best_utilities = (new_params :> new_utility) @@ @,
                   !.counter = @ + 1,
                   !.priority_queue = @ \cup
                       {[priority |-> 0 - new_utility, counter |-> st.counter + 1,
                         utility |-> new_utility, path |-> new_path,
                         params |-> new_params]},
                   !.trace = IF st.iterations <= 30
                                 /\ request.resultant \in pool[sid].outputs
                             THEN Append(@, Event(st.iterations, "expand"))
                             ELSE @])

\* one iteration of the while loop (lines 260-338)
DijkstraIteration(sp, st0) ==
    LET cur == HeapTop(st0.priority_queue)
        st == [st0 EXCEPT !.iterations = @ + 1,
                          !.priority_queue = @ \ {cur}]
        params_key == cur.params
    IN IF params_key \in DOMAIN st.best_utilities
          /\ st.best_utilities[params_key] > cur.utility
       THEN st
       ELSE IF request.resultant \in cur.params
       THEN IF cur.utility > st.best_solution_utility
            THEN [st EXCEPT !.best_solution_utility = cur.utility,
                            !.best_solution = <<cur.path>>,
                            !.trace = Append(@, Event(st.iterations, "goal_found"))]
            ELSE st
       ELSE LET applicable == Applicable(sp, cur.path, cur.params)
                st1 == IF applicable # <<>> /\ st.iterations <= 50
                       THEN [st EXCEPT !.trace =
                                Append(@, Event(st.iterations, "explore"))]
                       ELSE st
            IN DijkstraExpand(applicable, 1, cur, st1)

\* `if best_solution:` -- None and the empty path are both false
Truthy(best) == best # <<>> /\ best[1] # <<>>

\* "Build result" (lines 340-376); attributes never assigned are absent
DijkstraResult(st) ==
    IF Truthy(st.best_solution)
    THEN [services |-> st.best_solution[1],
          workflow |-> st.best_solution[1],
          utility_value |-> st.best_solution_utility,
          qos_achieved |-> aggregate_qos(st.best_solution[1]),
          success |-> TRUE,
          states_explored |-> <<st.iterations>>,
          explanation |-> <<"Dijkstra Algorithm", st.iterations>>,
          algorithm_trace |-> <<Append(st.trace, Event(st.iterations, "complete"))>>]
    ELSE [services |-> <<>>,
          workflow |-> <<>>,
          utility_value |-> 0,
          qos_achieved |-> DefaultQoS @@ [prob_den |-> 1],
          success |-> FALSE,
          states_explored |-> <<>>,
          explanation |-> <<"No composition found after", st.iterations>>,
          algorithm_trace |-> <<Append(st.trace, Event(st.iterations, "failed"))>>]

(***************************************************************************)
(* ClassicComposer._astar_compose.  g is held multiplied by UtilityScale.  *)
(* h and f are held exactly, as a Score: the value                         *)
(*   (units + 5000 * rt_num / _max_rt + 5000 * nov_num / nov_den)          *)
(*     / UtilityScale.                                                     *)
(***************************************************************************)
\* max(iterable, default=...)
MaxOver(S, default) ==
    IF S = {} THEN default ELSE CHOOSE m \in S : \A e \in S : e <= m

\* _max_rt = max((s.qos.response_time for s in services_pool), default=1)
_max_rt(sp) == MaxOver({pool[sid].qos.response_time : sid \in SeqToSet(sp)}, 1)

ZeroScore == [units |-> 0, rt_num |-> 0, nov_num |-> 0, nov_den |-> 1]

\* a > b for two Scores of one search (one _max_rt): the two fractional terms
\* lie in 0..10000 units, so they decide only when the units are that close
ScoreGreater(sp, a, b) ==
    LET d == a.units - b.units
        M == IF _max_rt(sp) > 0 THEN _max_rt(sp) ELSE 1
    IN IF d > 10000 THEN TRUE
       ELSE IF d < 0 - 10000 THEN FALSE
       ELSE d * M * a.nov_den * b.nov_den
            + 5000 * ( (a.rt_num - b.rt_num) * a.nov_den * b.nov_den
                     + (a.nov_num * b.nov_den - b.nov_num * a.nov_den) * M ) > 0

\* calculate_heuristic(service, available_params), lines 394-407
calculate_heuristic(sp, sid, avail) ==
    LET service == pool[sid]
        goal_bonus == IF request.resultant \in service.outputs THEN 1 ELSE 0
        new_params == service.outputs \ avail
    IN [units |-> goal_bonus * 50000
                  + service.qos.reliability * 200
                  + service.qos.availability * 200,
        \* norm_rt = 1 - rt / _max_rt if _max_rt > 0 else 0
        rt_num |-> IF _max_rt(sp) > 0
                   THEN _max_rt(sp) - service.qos.response_time ELSE 0,
        \* novelty = len(new_params) / max(len(service.outputs), 1)
        nov_num |-> Cardinality(new_params),
        nov_den |-> Max2(Cardinality(service.outputs), 1)]

\* heapq.heappop on (-f, counter, state) entries: the greatest f, then the
\* least counter
AStarHeapTop(sp, q) ==
    CHOOSE e \in q : \A o \in q :
        \/ o = e
        \/ ScoreGreater(sp, e.f_score, o.f_score)
        \/ ~ScoreGreater(sp, o.f_score, e.f_score) /\ e.counter < o.counter

AStarInit ==
    [priority_queue |-> {[f_score |-> ZeroScore, counter |-> 0, g_score |-> 0,
                          h_score |-> ZeroScore, path |-> <<>>,
                          params |-> request.provided]},
     best_utilities |-> (request.provided :> 0),
     best_solution |-> <<>>,
     best_solution_utility |-> NegInf,
     iterations |-> 0,
     counter |-> 0,
     trace |-> <<Event(0, "init")>>]

\* variant: only the first state recorded for a parameter set is kept
AStarKeeps_FirstOnly(best, new_params_key, new_g) ==
    new_params_key \notin DOMAIN best

\* variant: every successor is kept
AStarKeeps_Always(best, new_params_key, new_g) == TRUE

\* lines 491-498
AStarKeeps(best, new_params_key, new_g) ==
    ~(new_params_key \in DOMAIN best /\ best[new_params_key] >= new_g)

\* one pass of `for service in applicable` (lines 474-510), from index i on
RECURSIVE AStarExpand(_, _, _, _, _)
AStarExpand(sp, applicable, i, cur, st) ==
    IF i > Len(applicable) THEN st
    ELSE
      LET sid == applicable[i]
          su == service_utility(sid)
          new_path == Append(cur.path, sid)
          new_params == cur.params \cup pool[sid].outputs
          new_g == BottleneckUtility(cur.g_score, cur.path, su)
          new_h == calculate_heuristic(sp, sid, new_params)
          new_f == [new_h EXCEPT !.units = @ + new_g]
      IN IF ~AStarKeeps(st.best_utilities, new_params, new_g)
         THEN AStarExpand(sp, applicable, i + 1, cur, st)
         ELSE AStarExpand(sp, applicable, i + 1, cur,
                [st EXCEPT
                   !.best_utilities = (new_params :> new_g) @@ @,
                   !.counter = @ + 1,
                   !.priority_queue = @ \cup
                       {[f_score |-> new_f, counter |-> st.counter + 1,
                         g_score |-> new_g, h_score |-> new_h,
                         path |-> new_path, params |-> new_params]},
                   !.trace = IF st.iterations <= 30
                                 /\ request.resultant \in pool[sid].outputs
                             THEN Append(@, Event(st.iterations, "heuristic_boost"))
                             ELSE @])

\* one iteration of the while loop (lines 431-510)
AStarIteration(sp, st0) ==
    LET cur == AStarHeapTop(sp, st0.priority_queue)
        st == [st0 EXCEPT !.iterations = @ + 1,
                          !.priority_queue = @ \ {cur}]
        params_key == cur.params
    IN IF params_key \in DOMAIN st.best_utilities
          /\ st.best_utilities[params_key] > cur.g_score
       THEN st
       ELSE IF request.resultant \in cur.params
       THEN IF cur.g_score > st.best_solution_utility
            THEN [st EXCEPT !.best_solution_utility = cur.g_score,
                            !.best_solution = <<cur.path>>,
                            !.trace = Append(@, Event(st.iterations, "goal_found"))]
            ELSE st
       ELSE LET applicable == Applicable(sp, cur.path, cur.params)
                st1 == IF applicable # <<>> /\ st.iterations <= 50
                       THEN [st EXCEPT !.trace =
                                Append(@, Event(st.iterations, "explore"))]
                       ELSE st
            IN AStarExpand(sp, applicable, 1, cur, st1)

\* lines 512-545
AStarResult(st) ==
    IF Truthy(st.best_solution)
    THEN [services |-> st.best_solution[1],
          workflow |-> st.best_solution[1],
          utility_value |-> st.best_solution_utility,
          qos_achieved |-> aggregate_qos(st.best_solution[1]),
          success |-> TRUE,
          states_explored |-> <<st.iterations>>,
          explanation |-> <<"A* Algorithm (heuristic-guided)", st.iterations>>,
          algorithm_trace |-> <<Append(st.trace, Event(st.iterations, "complete"))>>]
    ELSE [services |-> <<>>,
          workflow |-> <<>>,
          utility_value |-> 0,
          qos_achieved |-> DefaultQoS @@ [prob_den |-> 1],
          success |-> FALSE,
          states_explored |-> <<>>,
          explanation |-> <<"No A* composition found after", st.iterations>>,
          algorithm_trace |-> <<Append(st.trace, Event(st.iterations, "failed"))>>]

(***************************************************************************)
(* ClassicComposer._greedy_compose                                         *)
(***************************************************************************)
GreedyInit ==
    [available_params |-> request.provided,
     path |-> <<>>,
     utilities |-> <<>>,
     iterations |-> 0,       \* steps
     dead_end |-> FALSE,     \* the loop was left by the dead-end `break`
     trace |-> <<Event(0, "init")>>]

\* score of a candidate (lines 600-611)
GreedyScore(sid) ==
    service_utility(sid)
    + (IF request.resultant \in pool[sid].outputs THEN 100 * UtilityScale ELSE 0)

\* variant: the first applicable service is taken, whatever its score
GreedyBest_First(applicable) == applicable[1]

\* candidates_eval.sort(key=score, reverse=True)[0]: list.sort is stable, also
\* with reverse=True, so the first applicable service of maximal score is taken
GreedyBest(applicable) ==
    LET i == CHOOSE i \in DOMAIN applicable :
                /\ \A j \in DOMAIN applicable :
                       GreedyScore(applicable[j]) <= GreedyScore(applicable[i])
                /\ \A j \in 1..(i - 1) :
                       GreedyScore(applicable[j]) < GreedyScore(applicable[i])
    IN applicable[i]

RECURSIVE MinSeq(_)
MinSeq(sq) ==
    IF Len(sq) = 1 THEN sq[1] ELSE Min2(sq[1], MinSeq(Tail(sq)))

\* variant: the loop runs while steps <= max_steps
GreedyContinues_OneMore(st) ==
    /\ ~st.dead_end
    /\ request.resultant \notin st.available_params
    /\ st.iterations <= max_steps

\* the while condition (line 576), with the `break` of line 593
GreedyContinues(st) ==
    /\ ~st.dead_end
    /\ request.resultant \notin st.available_params
    /\ st.iterations < max_steps

\* one iteration of the while loop (lines 577-661)
GreedyIteration(sp, st0) ==
    LET st == [st0 EXCEPT !.iterations = @ + 1]
        applicable == Applicable(sp, st.path, st.available_params)
    IN IF applicable = <<>>
       THEN [st EXCEPT !.dead_end = TRUE,
                       !.trace = Append(@, Event(st.iterations, "dead_end"))]
       ELSE LET best_service == GreedyBest(applicable)
                new_avail == st.available_params \cup pool[best_service].outputs
                chosen == Append(st.trace, Event(st.iterations, "greedy_choice"))
            IN [st EXCEPT
                  !.path = Append(@, best_service),
                  !.available_params = new_avail,
                  !.utilities = Append(@, service_utility(best_service)),
                  !.trace = IF request.resultant \in new_avail
                            THEN Append(chosen, Event(st.iterations, "goal_found"))
                            ELSE chosen]

\* lines 663-696
GreedyResult(st) ==
    IF request.resultant \in st.available_params
    THEN [services |-> st.path,
          workflow |-> st.path,
          utility_value |-> IF st.utilities # <<>> THEN MinSeq(st.utilities) ELSE 0,
          qos_achieved |-> aggregate_qos(st.path),
          success |-> TRUE,
          states_explored |-> <<st.iterations>>,
          explanation |-> <<"Greedy Algorithm", st.iterations>>,
          algorithm_trace |-> <<Append(st.trace, Event(st.iterations, "complete"))>>]
    ELSE [services |-> <<>>,
          workflow |-> <<>>,
          utility_value |-> 0,
          qos_achieved |-> DefaultQoS @@ [prob_den |-> 1],
          success |-> FALSE,
          states_explored |-> <<>>,
          explanation |-> <<"Greedy did not find a composition after", st.iterations>>,
          algorithm_trace |-> <<Append(st.trace, Event(st.iterations, "failed"))>>]

(***************************************************************************)
(* ClassicComposer.compose                                                 *)
(***************************************************************************)
Algorithms == {"dijkstra", "astar", "greedy"}

\* CompositionResult() (models/service.py:116-123) with algorithm_used set and
\* the early return of lines 97-101
NoPathResult ==
    [services |-> <<>>,
     workflow |-> <<>>,
     utility_value |-> 0,
     qos_achieved |-> DefaultQoS @@ [prob_den |-> 1],
     success |-> FALSE,
     states_explored |-> <<>>,
     explanation |-> <<"No reachable composition path exists.">>,
     algorithm_trace |-> <<>>]

\* variant: compose leaves the success flag of the strategy as it is
ComposeTail_Keep(r) == r

\* variant: success needs more than one service
ComposeTail_OffByOne(r) == [r EXCEPT !.success = Len(r.services) > 1]

\* lines 111-113: what compose does to the strategy's result
ComposeTail(r) == [r EXCEPT !.success = Len(r.services) > 0]

NoSearch == [iterations |-> 0, trace |-> <<>>]

StrategyInit(alg) ==
    IF alg = "dijkstra" THEN DijkstraInit
    ELSE IF alg = "astar" THEN AStarInit
    ELSE GreedyInit

\* compose up to the call of the strategy (lines 91-109): the filter, the early
\* return, and the strategy's initialisation
Compose(alg) ==
    /\ pc = "idle"
    /\ algorithm' = alg
    /\ cap_hit' = FALSE
    /\ LET relevant == _get_relevant_services
       IN IF relevant = {}
          THEN /\ pc' = "done"
               /\ result' = NoPathResult
               /\ UNCHANGED <<services_pool, search>>
          ELSE /\ \E order \in Enumerations(relevant) : services_pool' = order
               /\ search' = StrategyInit(alg)
               /\ pc' = "search"
               /\ UNCHANGED result
    /\ UNCHANGED <<pool, request, appvars>>

\* `while priority_queue and iterations < max_iterations and time.time() < deadline`
\* with the clock still before the deadline
DijkstraStep ==
    /\ pc = "search" /\ algorithm = "dijkstra"
    /\ search.priority_queue # {}
    /\ search.iterations < max_iterations
    /\ search' = DijkstraIteration(services_pool, search)
    /\ UNCHANGED <<pool, request, algorithm, pc, services_pool, cap_hit, result,
                   appvars>>

\* the loop condition is false: queue empty, ceiling reached, or the clock has
\* passed the deadline (any moment, as far as the search can tell)
DijkstraReturn ==
    /\ pc = "search" /\ algorithm = "dijkstra"
    /\ \E expired \in BOOLEAN :
          /\ (search.priority_queue = {}
                \/ search.iterations >= max_iterations \/ expired)
          /\ cap_hit' = (search.priority_queue # {})
    /\ result' = ComposeTail(DijkstraResult(search))
    /\ pc' = "done"
    /\ UNCHANGED <<pool, request, algorithm, services_pool, search, appvars>>

AStarStep ==
    /\ pc = "search" /\ algorithm = "astar"
    /\ search.priority_queue # {}
    /\ search.iterations < max_iterations
    /\ search' = AStarIteration(services_pool, search)
    /\ UNCHANGED <<pool, request, algorithm, pc, services_pool, cap_hit, result,
                   appvars>>

AStarReturn ==
    /\ pc = "search" /\ algorithm = "astar"
    /\ \E expired \in BOOLEAN :
          /\ (search.priority_queue = {}
                \/ search.iterations >= max_iterations \/ expired)
          /\ cap_hit' = (search.priority_queue # {})
    /\ result' = ComposeTail(AStarResult(search))
    /\ pc' = "done"
    /\ UNCHANGED <<pool, request, algorithm, services_pool, search, appvars>>

GreedyStep ==
    /\ pc = "search" /\ algorithm = "greedy"
    /\ GreedyContinues(search)
    /\ search' = GreedyIteration(services_pool, search)
    /\ UNCHANGED <<pool, request, algorithm, pc, services_pool, cap_hit, result,
                   appvars>>

GreedyReturn ==
    /\ pc = "search" /\ algorithm = "greedy"
    /\ ~GreedyContinues(search)
    /\ cap_hit' = (/\ ~search.dead_end
                   /\ request.resultant \notin search.available_params)
    /\ result' = ComposeTail(GreedyResult(search))
    /\ pc' = "done"
    /\ UNCHANGED <<pool, request, algorithm, services_pool, search, appvars>>

(***************************************************************************)
(* A whole call: the strategy's loop run until its condition is false with *)
(* the clock never reaching the deadline, then the result and compose's    *)
(* tail.                                                                   *)
(***************************************************************************)
RECURSIVE DijkstraSearch(_, _)
DijkstraSearch(sp, st) ==
    IF st.priority_queue # {} /\ st.iterations < max_iterations
    THEN DijkstraSearch(sp, DijkstraIteration(sp, st))
    ELSE st

RECURSIVE AStarSearch(_, _)
AStarSearch(sp, st) ==
    IF st.priority_queue # {} /\ st.iterations < max_iterations
    THEN AStarSearch(sp, AStarIteration(sp, st))
    ELSE st

RECURSIVE GreedySearch(_, _)
GreedySearch(sp, st) ==
    IF GreedyContinues(st) THEN GreedySearch(sp, GreedyIteration(sp, st)) ELSE st

\* compose(request, alg) when _get_relevant_services returned the list sp
ComposeOn(alg, sp) ==
    IF sp = <<>> THEN NoPathResult
    ELSE IF alg = "dijkstra"
    THEN ComposeTail(DijkstraResult(DijkstraSearch(sp, DijkstraInit)))
    ELSE IF alg = "astar"
    THEN ComposeTail(AStarResult(AStarSearch(sp, AStarInit)))
    ELSE ComposeTail(GreedyResult(GreedySearch(sp, GreedyInit)))

\* no compose call has returned before this one
NoCall == <<>>

\* the composer is used on its own, outside the web application
NoAppState == [services |-> <<>>, classic_composer |-> <<>>]

NoThreads == <<>>

\* Pools of up to NumServices services, up to the naming of the services: the
\* engine only ever compares ids for equality, so S1..Sn take their shapes in
\* non-decreasing shape number.
PoolsOfSize(n) ==
    {[sid \in {ServiceNames[i] : i \in 1..n} |->
         ShapeAt(k[CHOOSE i \in 1..n : ServiceNames[i] = sid])] :
        k \in {f \in [1..n -> 1..NumShapes] :
                  \A i \in 1..(n - 1) : f[i] <= f[i + 1]}}

Pools == UNION {PoolsOfSize(n) : n \in 0..NumServices}

Init ==
    /\ pool \in Pools
    /\ request \in CompositionRequests
    /\ algorithm = "none"
    /\ pc = "idle"
    /\ services_pool = <<>>
    /\ search = NoSearch
    /\ cap_hit = FALSE
    /\ result = NoPathResult
    /\ prev = NoCall
    /\ app_state = NoAppState
    /\ threads = NoThreads

Next ==
    \/ \E alg \in Algorithms : Compose(alg)
    \/ DijkstraStep
    \/ DijkstraReturn
    \/ AStarStep
    \/ AStarReturn
    \/ GreedyStep
    \/ GreedyReturn

Spec == Init /\ [][Next]_vars

\* pools in which a service leads back to the provided parameters (x -> x)
\* beside a chain x -> y, y -> z to the target, under every assignment of the
\* QoS profiles
LivePools ==
    {p \in PoolsOfSize(NumServices) :
        /\ \A sid \in DOMAIN p :
              <<p[sid].inputs, p[sid].outputs>>
                  \in {<<{"x"}, {"x"}>>, <<{"x"}, {"y"}>>, <<{"y"}, {"z"}>>}
        /\ \E sid \in DOMAIN p : p[sid].outputs = {"x"}
        /\ \E sid \in DOMAIN p : p[sid].outputs = {"y"}
        /\ \E sid \in DOMAIN p : p[sid].outputs = {"z"}}

LiveInit ==
    /\ pool \in LivePools
    /\ request \in {r \in CompositionRequests :
                       r.provided = {"x"} /\ r.resultant = "z"}
    /\ algorithm = "none"
    /\ pc = "idle"
    /\ services_pool = <<>>
    /\ search = NoSearch
    /\ cap_hit = FALSE
    /\ result = NoPathResult
    /\ prev = NoCall
    /\ app_state = NoAppState
    /\ threads = NoThreads

\* the steps and returns of the three strategies
SearchNext ==
    \/ DijkstraStep \/ DijkstraReturn
    \/ AStarStep \/ AStarReturn
    \/ GreedyStep \/ GreedyReturn

\* The interpreter keeps running the loop of the strategy it entered.  This is
\* WF_vars(SearchNext) with its enabling condition written out: in every state
\* with pc = "search" the running strategy can take a step or return, and both
\* change the state.
SearchFairness == []<>(pc # "search") \/ []<><<SearchNext>>_vars

LiveSpec == LiveInit /\ [][Next]_vars /\ SearchFairness

(***************************************************************************)
(* Faults inside a compose call.  An exception can be raised while the     *)
(* pool is filtered (request.provided is None: set(None) at line 39), in   *)
(* the strategy (request.qos_constraints is None: meets_constraints at     *)
(* lines 304, 477, 600) or while the graph is built (request.provided is   *)
(* not sliceable: line 168).                                               *)
(***************************************************************************)
\* CompositionResult() with algorithm_used set (lines 92-93)
NewCompositionResult == [NoPathResult EXCEPT !.explanation = <<"">>]

\* the except clause of compose (lines 132-138): explanation = f"Error: {e}"
ExceptClause(r) == [r EXCEPT !.success = FALSE, !.explanation = <<"Error">>]

\* what the running strategy returns when its loop is left now
StrategyResult ==
    IF algorithm = "dijkstra" THEN DijkstraResult(search)
    ELSE IF algorithm = "astar" THEN AStarResult(search)
    ELSE GreedyResult(search)

\* _get_relevant_services raises: line 96 is before the try block of line 103,
\* so the exception leaves compose and no result is returned
FilterFault(alg) ==
    /\ pc = "idle"
    /\ algorithm' = alg
    /\ pc' = "raised"
    /\ UNCHANGED <<pool, request, services_pool, search, cap_hit, result, appvars>>

\* the strategy raises (lines 104-109): the except clause works on the
\* CompositionResult of line 92, `result` not having been reassigned
StrategyFault ==
    /\ pc = "search"
    /\ result' = ExceptClause(NewCompositionResult)
    /\ pc' = "done"
    /\ UNCHANGED <<pool, request, algorithm, services_pool, search, cap_hit, appvars>>

\* _build_service_graph raises (line 116): the strategy has returned and lines
\* 111-113 have run, so the except clause works on the strategy's result
GraphFault ==
    /\ pc = "search"
    /\ IF algorithm = "greedy"
       THEN /\ ~GreedyContinues(search)
            /\ cap_hit' = (/\ ~search.dead_end
                           /\ request.resultant \notin search.available_params)
       ELSE cap_hit' = (search.priority_queue # {})
    /\ result' = ExceptClause(ComposeTail(StrategyResult))
    /\ pc' = "done"
    /\ UNCHANGED <<pool, request, algorithm, services_pool, search, appvars>>

FaultPools == UNION {PoolsOfSize(n) : n \in 0..(NumServices - 1)}

FaultInit ==
    /\ pool \in FaultPools
    /\ request \in CompositionRequests
    /\ algorithm = "none"
    /\ pc = "idle"
    /\ services_pool = <<>>
    /\ search = NoSearch
    /\ cap_hit = FALSE
    /\ result = NoPathResult
    /\ prev = NoCall
    /\ app_state = NoAppState
    /\ threads = NoThreads

FaultNext ==
    \/ \E alg \in Algorithms : Compose(alg)
    \/ DijkstraStep
    \/ DijkstraReturn
    \/ AStarStep
    \/ AStarReturn
    \/ GreedyStep
    \/ GreedyReturn
    \/ \E alg \in Algorithms : FilterFault(alg)
    \/ StrategyFault
    \/ GraphFault

FaultSpec == FaultInit /\ [][FaultNext]_vars

(***************************************************************************)
(* Two compose calls in a row on one composer, as compose_classic makes    *)
(* them (app.py:1038): the caller keeps what it saw of the first result.   *)
(***************************************************************************)
\* which of its outcomes the compose call that has just returned took
OutcomeKind ==
    IF result.success THEN "success"
    ELSE IF search = NoSearch THEN "unreachable"     \* early return, line 101
    ELSE IF cap_hit THEN "budget"                    \* loop left with work pending
    ELSE "exhausted"                                 \* loop ran to its end

\* what a caller can read of a result: explanation and states_explored
Observed(r) == [explanation |-> r.explanation, states_explored |-> r.states_explored]

\* the caller takes the result and issues the next request to the same composer
NextCall ==
    /\ pc = "done"
    /\ prev = NoCall
    /\ prev' = <<[kind |-> OutcomeKind, algorithm |-> algorithm,
                  observed |-> Observed(result)]>>
    /\ request' \in CompositionRequests
    /\ algorithm' = "none"
    /\ pc' = "idle"
    /\ services_pool' = <<>>
    /\ search' = NoSearch
    /\ cap_hit' = FALSE
    /\ result' = NoPathResult
    /\ UNCHANGED <<pool, app_state, threads>>

PairNext ==
    \/ \E alg \in Algorithms : Compose(alg)
    \/ DijkstraStep
    \/ DijkstraReturn
    \/ AStarStep
    \/ AStarReturn
    \/ GreedyStep
    \/ GreedyReturn
    \/ NextCall

PairSpec == FaultInit /\ [][PairNext]_vars

(***************************************************************************)
(* app.py: the threads that replace or use app_state['classic_composer'].  *)
(* Each upload request extends the shared list app_state['services'] and   *)
(* builds a composer from it (lines 486-494); the annotation worker        *)
(* replaces list items by their annotated versions and builds a composer   *)
(* (lines 893-902); a compose request builds one if there is none and      *)
(* calls the one it then finds (lines 1034-1038).  No lock is held.        *)
(* ClassicComposer.__init__ walks the list twice: once for service_dict    *)
(* (line 20), once for the three indexes (lines 27-32).  A composer is     *)
(* held here as the two sets of service ids these walks covered.           *)
(***************************************************************************)
NumUploads == 2

\* the state of a compose call, which the application threads leave alone
composevars == <<pool, request, algorithm, pc, services_pool, search, cap_hit, result, prev>>

UploadNames == <<"upload1", "upload2", "upload3", "upload4">>

UploadThreads == {UploadNames[i] : i \in 1..NumUploads}

\* the service an upload request parsed from its files
UploadedService(t) == ServiceNames[CHOOSE i \in 1..NumUploads : UploadNames[i] = t]

ThreadNames == UploadThreads \cup {"annotation", "compose"}

NoComposer == <<>>

ThreadStart == [pc |-> "start", service_dict |-> {}, indexed |-> {}, composer |-> NoComposer]

\* upload_services, line 487: app_state['services'].extend(services)
Extend(t) ==
    /\ UNCHANGED composevars
    /\ t \in UploadThreads
    /\ threads[t].pc = "start"
    /\ app_state' = [app_state EXCEPT !.services = Append(@, UploadedService(t))]
    /\ threads' = [threads EXCEPT ![t].pc = "init"]

\* _annotation_worker, lines 893-899: the items of the list are replaced by
\* their annotated versions, which keep their ids; start_annotation refuses
\* an empty list (line 845)
ReplaceAnnotated(t) ==
    /\ UNCHANGED composevars
    /\ t = "annotation"
    /\ threads[t].pc = "start"
    /\ app_state.services # <<>>
    /\ threads' = [threads EXCEPT ![t].pc = "init"]
    /\ UNCHANGED app_state

\* compose_classic, lines 1034-1036: build a composer only if there is none
CheckComposer(t) ==
    /\ UNCHANGED composevars
    /\ t = "compose"
    /\ threads[t].pc = "start"
    /\ threads' = [threads EXCEPT ![t].pc =
                      IF app_state.classic_composer = NoComposer THEN "init" ELSE "call"]
    /\ UNCHANGED app_state

\* ClassicComposer.__init__, line 20: service_dict = {s.id: s for s in services}
BuildServiceDict(t) ==
    /\ UNCHANGED composevars
    /\ threads[t].pc = "init"
    /\ threads' = [threads EXCEPT ![t].service_dict = SeqToSet(app_state.services),
                                  ![t].pc = "index"]
    /\ UNCHANGED app_state

\* ClassicComposer.__init__, lines 27-32: the loop that fills _service_input_sets,
\* _output_index and _input_index; it covers the list as it is when the loop ends
BuildIndexes(t) ==
    /\ UNCHANGED composevars
    /\ threads[t].pc = "index"
    /\ threads' = [threads EXCEPT ![t].indexed = SeqToSet(app_state.services),
                                  ![t].pc = "assign"]
    /\ UNCHANGED app_state

\* app_state['classic_composer'] = ClassicComposer(...), lines 494, 902, 1036
AssignComposer(t) ==
    /\ UNCHANGED composevars
    /\ threads[t].pc = "assign"
    /\ app_state' = [app_state EXCEPT !.classic_composer =
                        <<[service_dict |-> threads[t].service_dict,
                           indexed |-> threads[t].indexed]>>]
    /\ threads' = [threads EXCEPT ![t].pc = IF t = "compose" THEN "call" ELSE "done"]

\* compose_classic, line 1038: app_state['classic_composer'].compose(...) runs
\* on the composer the reference holds at that moment
CallCompose(t) ==
    /\ UNCHANGED composevars
    /\ t = "compose"
    /\ threads[t].pc = "call"
    /\ threads' = [threads EXCEPT ![t].composer = app_state.classic_composer,
                                  ![t].pc = "searching"]
    /\ UNCHANGED app_state

\* the search returns and the next compose request arrives
ComposeReturns(t) ==
    /\ UNCHANGED composevars
    /\ t = "compose"
    /\ threads[t].pc = "searching"
    /\ threads' = [threads EXCEPT ![t] = ThreadStart]
    /\ UNCHANGED app_state

RebuildInit ==
    /\ pool \in PoolsOfSize(0)
    /\ request = CHOOSE r \in CompositionRequests : TRUE
    /\ algorithm = "none"
    /\ pc = "idle"
    /\ services_pool = <<>>
    /\ search = NoSearch
    /\ cap_hit = FALSE
    /\ result = NoPathResult
    /\ prev = NoCall
    /\ app_state = NoAppState
    /\ threads = [t \in ThreadNames |-> ThreadStart]

RebuildNext ==
    \/ \E t \in ThreadNames : Extend(t)
    \/ \E t \in ThreadNames : ReplaceAnnotated(t)
    \/ \E t \in ThreadNames : CheckComposer(t)
    \/ \E t \in ThreadNames : BuildServiceDict(t)
    \/ \E t \in ThreadNames : BuildIndexes(t)
    \/ \E t \in ThreadNames : AssignComposer(t)
    \/ \E t \in ThreadNames : CallCompose(t)
    \/ \E t \in ThreadNames : ComposeReturns(t)

RebuildSpec == RebuildInit /\ [][RebuildNext]_vars

(***************************************************************************)
(* compose on one-service pools whose service meets 0, 1, ..., 9 of the    *)
(* nine constraints, or sits exactly on every threshold: the returned      *)
(* utility is calculate_utility of that service.                           *)
(***************************************************************************)
\* a QoS meeting the first k constraints of ConstraintProfiles (in the order
\* of the QoS attributes) and missing the others
TierQoS(k) ==
    QoS(IF k >= 1 THEN 100 ELSE 900, IF k >= 2 THEN 95 ELSE 40,
        IF k >= 3 THEN 800 ELSE 100, IF k >= 4 THEN 95 ELSE 50,
        IF k >= 5 THEN 95 ELSE 40,   IF k >= 6 THEN 90 ELSE 30,
        IF k >= 7 THEN 90 ELSE 30,   IF k >= 8 THEN 50 ELSE 800,
        IF k >= 9 THEN 90 ELSE 20)

TierProfiles == {TierQoS(k) : k \in 0..Cardinality(QoSKeys)} \cup ConstraintProfiles

UtilityInit ==
    /\ pool \in {[sid \in {ServiceNames[1]} |->
                     [inputs |-> {"x"}, outputs |-> {"z"}, qos |-> q]] :
                 q \in TierProfiles}
    /\ request \in {r \in CompositionRequests :
                       r.provided = {"x"} /\ r.resultant = "z"}
    /\ algorithm = "none"
    /\ pc = "idle"
    /\ services_pool = <<>>
    /\ search = NoSearch
    /\ cap_hit = FALSE
    /\ result = NoPathResult
    /\ prev = NoCall
    /\ app_state = NoAppState
    /\ threads = NoThreads

UtilitySpec == UtilityInit /\ [][Next]_vars

(***************************************************************************)
(* _get_relevant_services on its own, on pools large enough for the        *)
(* intersection of the two closures to reach three services and still      *)
(* differ from their union.  The QoS plays no part in the filter.          *)
(***************************************************************************)
FilterPoolSize == 4

FilterPoolsOfSize(n) ==
    {[sid \in {ServiceNames[i] : i \in 1..n} |->
         LET sig == SignatureList[k[CHOOSE i \in 1..n : ServiceNames[i] = sid]]
         IN [inputs |-> sig[1], outputs |-> sig[2], qos |-> HighQoS]] :
        k \in {f \in [1..n -> 1..Len(SignatureList)] :
                  \A i \in 1..(n - 1) : f[i] <= f[i + 1]}}

FilterPools == UNION {FilterPoolsOfSize(n) : n \in 0..FilterPoolSize}

FilterInit ==
    /\ pool \in FilterPools
    /\ request \in CompositionRequests
    /\ algorithm = "none"
    /\ pc = "idle"
    /\ services_pool = <<>>
    /\ search = NoSearch
    /\ cap_hit = FALSE
    /\ result = NoPathResult
    /\ prev = NoCall
    /\ app_state = NoAppState
    /\ threads = NoThreads

\* services_pool = self._get_relevant_services(request)
GetRelevantServices ==
    /\ pc = "idle"
    /\ \E order \in Enumerations(_get_relevant_services) : services_pool' = order
    /\ pc' = "filtered"
    /\ UNCHANGED <<pool, request, algorithm, search, cap_hit, result, appvars>>

FilterNext == GetRelevantServices

FilterSpec == FilterInit /\ [][FilterNext]_vars

(***************************************************************************)
(* compose(request, "greedy") on pools that keep the greedy loop busy up   *)
(* to its step limit: decoys x -> x of the best utility, taken first, one  *)
(* service x -> y of a lower utility, and one service y -> z.  Services    *)
(* are numbered; the candidate list is taken in ascending or in descending *)
(* order of the numbers.                                                   *)
(***************************************************************************)
ShortDecoys == 1

LongDecoys == 1

DecoyCounts == (0..ShortDecoys) \cup ((max_steps - 1)..(max_steps + LongDecoys))

DecoyPool(k) ==
    [i \in 1..(k + 2) |->
        IF i <= k THEN [inputs |-> {"x"}, outputs |-> {"x"}, qos |-> HighQoS]
        ELSE IF i = k + 1 THEN [inputs |-> {"x"}, outputs |-> {"y"}, qos |-> MidQoS]
        ELSE [inputs |-> {"y"}, outputs |-> {"z"}, qos |-> HighQoS]]

\* the ids of S from the least to the greatest
Ascending(S) ==
    [i \in 1..Cardinality(S) |->
        CHOOSE m \in S : Cardinality({e \in S : e < m}) = i - 1]

Descending(S) ==
    LET up == Ascending(S)
    IN [i \in DOMAIN up |-> up[Len(up) + 1 - i]]

GreedyPoolInit ==
    /\ pool \in {DecoyPool(k) : k \in DecoyCounts}
    /\ request \in {r \in CompositionRequests : r.resultant = "z"}
    /\ algorithm = "none"
    /\ pc = "idle"
    /\ services_pool = <<>>
    /\ search = NoSearch
    /\ cap_hit = FALSE
    /\ result = NoPathResult
    /\ prev = NoCall
    /\ app_state = NoAppState
    /\ threads = NoThreads

\* compose(request, "greedy") up to the call of the strategy (lines 91-109)
ComposeGreedy ==
    /\ pc = "idle"
    /\ algorithm' = "greedy"
    /\ cap_hit' = FALSE
    /\ LET relevant == _get_relevant_services
       IN IF relevant = {}
          THEN /\ pc' = "done"
               /\ result' = NoPathResult
               /\ UNCHANGED <<services_pool, search>>
          ELSE /\ services_pool' \in {Ascending(relevant), Descending(relevant)}
               /\ search' = GreedyInit
               /\ pc' = "search"
               /\ UNCHANGED result
    /\ UNCHANGED <<pool, request, appvars>>

GreedyNext == ComposeGreedy \/ GreedyStep \/ GreedyReturn

GreedySpec == GreedyPoolInit /\ [][GreedyNext]_vars

(***************************************************************************)
(* app.py, start_annotation (POST /api/annotate/start).  run.py serves     *)
(* with threaded=True, so every request runs the handler in a thread of    *)
(* its own.  The handler reads app_state['annotation_thread'] and tests    *)
(* is_alive() (lines 848-850), and only later creates, stores and starts   *)
(* its worker thread (lines 932-934); state_lock is held for the reset of  *)
(* the progress record only (lines 861-869).                               *)
(***************************************************************************)
NumStarts == 2

\* start requests one client sends, one after the other
MaxRequests == 2

StartNames == <<"start1", "start2", "start3", "start4">>

StartRequests == {StartNames[i] : i \in 1..NumStarts}

NoThread == <<>>

\* a client's first request, not yet received; worker is the state of the
\* thread the request creates, sent the number of requests the client has sent
RequestStart == [pc |-> "start", response |-> 0, worker |-> "none", sent |-> 1]

\* Thread.is_alive(): true from start() until the worker function returns
IsAlive(thread) == thread # NoThread /\ threads[thread[1]].worker = "alive"

\* lines 845-846: `if not app_state['services']` -> 400
CheckServices(r) ==
    /\ UNCHANGED composevars
    /\ threads[r].pc = "start"
    /\ threads' = [threads EXCEPT ![r] =
                      IF app_state.services = <<>>
                      THEN [@ EXCEPT !.pc = "done", !.response = 400]
                      ELSE [@ EXCEPT !.pc = "check"]]
    /\ UNCHANGED app_state

\* lines 848-850: `thread = app_state.get('annotation_thread')`;
\* `if thread and thread.is_alive()` -> 409
CheckThread(r) ==
    /\ UNCHANGED composevars
    /\ threads[r].pc = "check"
    /\ threads' = [threads EXCEPT ![r] =
                      IF IsAlive(app_state.annotation_thread)
                      THEN [@ EXCEPT !.pc = "done", !.response = 409]
                      ELSE [@ EXCEPT !.pc = "reset"]]
    /\ UNCHANGED app_state

\* lines 852-869: the annotator is created if missing and the progress record
\* is reset under state_lock
ResetProgress(r) ==
    /\ UNCHANGED composevars
    /\ threads[r].pc = "reset"
    /\ threads' = [threads EXCEPT ![r].pc = "create"]
    /\ UNCHANGED app_state

\* lines 932-933: t = threading.Thread(...); app_state['annotation_thread'] = t
StoreThread(r) ==
    /\ UNCHANGED composevars
    /\ threads[r].pc = "create"
    /\ threads' = [threads EXCEPT ![r].pc = "starting", ![r].worker = "created"]
    /\ app_state' = [app_state EXCEPT !.annotation_thread = <<r>>]

\* lines 934-939: t.start(); return 202
StartThread(r) ==
    /\ UNCHANGED composevars
    /\ threads[r].pc = "starting"
    /\ threads' = [threads EXCEPT ![r] =
                      [@ EXCEPT !.pc = "done", !.response = 202, !.worker = "alive"]]
    /\ UNCHANGED app_state

\* _annotation_worker returns (lines 870-930)
WorkerReturns(r) ==
    /\ UNCHANGED composevars
    /\ threads[r].worker = "alive"
    /\ threads' = [threads EXCEPT ![r].worker = "finished"]
    /\ UNCHANGED app_state

\* the client sends its next start request once the previous one is answered
\* and the worker it started, if any, is over
NextStart(r) ==
    /\ UNCHANGED composevars
    /\ threads[r].pc = "done"
    /\ threads[r].worker \in {"none", "finished"}
    /\ threads[r].sent < MaxRequests
    /\ threads' = [threads EXCEPT ![r] =
                      [RequestStart EXCEPT !.sent = threads[r].sent + 1]]
    /\ UNCHANGED app_state

AnnotateInit ==
    /\ pool \in PoolsOfSize(0)
    /\ request = CHOOSE r \in CompositionRequests : TRUE
    /\ algorithm = "none"
    /\ pc = "idle"
    /\ services_pool = <<>>
    /\ search = NoSearch
    /\ cap_hit = FALSE
    /\ result = NoPathResult
    /\ prev = NoCall
    /\ app_state \in {[services |-> s, classic_composer |-> NoComposer,
                       annotation_thread |-> NoThread] :
                      s \in {<<>>, <<ServiceNames[1]>>}}
    /\ threads = [r \in StartRequests |-> RequestStart]

AnnotateNext ==
    \/ \E r \in StartRequests : CheckServices(r)
    \/ \E r \in StartRequests : CheckThread(r)
    \/ \E r \in StartRequests : ResetProgress(r)
    \/ \E r \in StartRequests : StoreThread(r)
    \/ \E r \in StartRequests : StartThread(r)
    \/ \E r \in StartRequests : WorkerReturns(r)
    \/ \E r \in StartRequests : NextStart(r)

AnnotateSpec == AnnotateInit /\ [][AnnotateNext]_vars

(***************************************************************************)
(* Properties.                                                             *)
(***************************************************************************)
Returned == pc = "done"

NoPathExplanation == <<"No reachable composition path exists.">>

NoDuplicates(sq) == \A i, j \in DOMAIN sq : i # j => sq[i] # sq[j]

\* the outputs of the first n services of a workflow
OutputsOf(wf, n) == UNION {pool[wf[i]].outputs : i \in 1..n}

ExecutableInOrder(wf) ==
    \A i \in DOMAIN wf :
        pool[wf[i]].inputs \subseteq (request.provided \cup OutputsOf(wf, i - 1))

\* C1: a request whose resultant is missing (None) is rejected by compose with
\* an outcome that differs from the "no reachable composition path" outcome
\* compose returns for a well-formed request whose goal is unreachable.
C1_MissingResultantRejected ==
    (Returned /\ request.resultant = NoneParam)
        => result.explanation # NoPathExplanation

\* C2: if the forward closure from request.provided does not contain
\* request.resultant, compose returns success = false under every strategy and
\* no search-loop iteration was executed.
C2_UnreachableFailsFast ==
    (Returned /\ request.resultant \notin ForwardClosure.params)
        => /\ ~result.success
           /\ result.workflow = <<>>
           /\ search = NoSearch

\* C2 witness: a well-formed request, a pool with a producer of the target that
\* the closure never admits, and compose has returned.
C2_Witness ==
    /\ Returned
    /\ algorithm = "astar"
    /\ request.resultant = "z"
    /\ request.resultant \notin ForwardClosure.params
    /\ \E sid \in DOMAIN pool : "z" \in pool[sid].outputs

\* C3: a workflow returned with success = true is executable in order: every
\* service's full input set is contained in request.provided united with the
\* outputs of the services before it, and request.resultant is in
\* request.provided united with the outputs of all its services.
C3_WorkflowExecutable ==
    (Returned /\ result.success)
        => /\ ExecutableInOrder(result.workflow)
           /\ request.resultant \in
                 (request.provided \cup OutputsOf(result.workflow, Len(result.workflow)))

\* C3 witness: a returned two-service workflow whose second service needs an
\* output of the first.
C3_Witness ==
    /\ Returned /\ result.success
    /\ Len(result.workflow) = 2
    /\ ~(pool[result.workflow[2]].inputs \subseteq request.provided)

\* C4: for every result returned with a non-empty workflow, utility_value is
\* the minimum of the per-service utilities of the workflow's services.
C4_BottleneckLaw ==
    (Returned /\ result.workflow # <<>>)
        => /\ \A i \in DOMAIN result.workflow :
                 result.utility_value <= service_utility(result.workflow[i])
           /\ \E i \in DOMAIN result.workflow :
                 result.utility_value = service_utility(result.workflow[i])

\* C4 witness: a returned workflow of two services of different utility, the
\* weaker one first.
C4_Witness ==
    /\ Returned /\ algorithm = "dijkstra"
    /\ Len(result.workflow) = 2
    /\ service_utility(result.workflow[1]) < service_utility(result.workflow[2])

\* C5: no returned workflow, no recorded best solution and no path of a queued
\* or current search state contains a service id twice.
C5_CycleFree ==
    /\ Returned => NoDuplicates(result.workflow)
    /\ (pc = "search" /\ algorithm \in {"dijkstra", "astar"})
          => /\ \A e \in search.priority_queue : NoDuplicates(e.path)
             /\ search.best_solution # <<>> => NoDuplicates(search.best_solution[1])
    /\ (pc = "search" /\ algorithm = "greedy") => NoDuplicates(search.path)

\* C5 witness: the greedy path holds two services, and the first is still
\* applicable (only the path test keeps it from being taken again).
C5_Witness ==
    /\ pc = "search" /\ algorithm = "greedy"
    /\ Len(search.path) = 2
    /\ request.resultant \notin search.available_params
    /\ _service_input_sets(search.path[1]) \subseteq search.available_params

\* the bottleneck utility held by a heap entry
EntryUtility(e) == IF algorithm = "dijkstra" THEN e.utility ELSE e.g_score

\* C6: during a dijkstra or astar search the best utility recorded for a
\* parameter set never decreases (and is never forgotten), and a successor is
\* enqueued only when its utility is strictly greater than every utility
\* recorded before for its parameter set.
C6_DedupMonotone ==
    [][(pc = "search" /\ algorithm \in {"dijkstra", "astar"} /\ pc' = "search")
        => /\ \A K \in DOMAIN search.best_utilities :
                 /\ K \in DOMAIN search'.best_utilities
                 /\ search'.best_utilities[K] >= search.best_utilities[K]
           /\ \A e \in search'.priority_queue \ search.priority_queue :
                 /\ e.params \in DOMAIN search.best_utilities
                       => EntryUtility(e) > search.best_utilities[e.params]
                 /\ \A o \in search'.priority_queue \ search.priority_queue :
                       (o.params = e.params /\ o.counter < e.counter)
                           => EntryUtility(o) < EntryUtility(e)
                 /\ EntryUtility(e) <= search'.best_utilities[e.params]]_vars

\* C6 witness: the queue holds an entry whose parameter set has since been
\* recorded with a strictly better utility.
C6_Witness ==
    /\ pc = "search" /\ algorithm = "dijkstra"
    /\ \E e \in search.priority_queue :
          search.best_utilities[e.params] > e.utility

\* C7: two invocations of compose with the same strategy on the same pool and
\* request, neither cut off, return the same workflow and the same utility
\* value, whatever the order in which the candidate list is enumerated.
C7_Deterministic ==
    (Returned /\ ~cap_hit)
        => \A order \in Enumerations(SeqToSet(services_pool)) :
              /\ ComposeOn(algorithm, order).workflow = result.workflow
              /\ ComposeOn(algorithm, order).utility_value = result.utility_value

\* the chains of distinct pool services
Chains ==
    {c \in UNION {[1..n -> DOMAIN pool] : n \in 1..Cardinality(DOMAIN pool)} :
        NoDuplicates(c)}

\* a chain each of whose services has its inputs covered by the provided
\* parameters and the outputs of the services before it, ending in a producer
\* of the target
ChainExists ==
    \E c \in Chains :
        /\ ExecutableInOrder(c)
        /\ request.resultant \in pool[c[Len(c)]].outputs

\* C8: when request.resultant is not provided and a chain of distinct pool
\* services leads from request.provided to a producer of the target, compose
\* returns success = true with a non-empty workflow under every strategy, no cap
\* being hit; a pool that is one directly applicable producer yields that
\* service, a pool that is a producer and its consumer yields them in order.
C8_ChainFound ==
    (Returned /\ ~cap_hit /\ request.resultant \notin request.provided /\ ChainExists)
        => /\ result.success
           /\ result.workflow # <<>>
           /\ \A c \in Chains :
                 (Len(c) = Cardinality(DOMAIN pool) /\ ExecutableInOrder(c)
                    /\ request.resultant \in pool[c[Len(c)]].outputs
                    /\ \A i \in 1..(Len(c) - 1) :
                          /\ request.resultant \notin pool[c[i]].outputs
                          /\ ~(pool[c[i + 1]].inputs
                                  \subseteq (request.provided \cup OutputsOf(c, i - 1))))
                    => result.workflow = c

\* Supplement to C8: the same statement for chains none of whose services has
\* an empty input set.
NonEmptyInputChainExists ==
    \E c \in Chains :
        /\ ExecutableInOrder(c)
        /\ \A i \in DOMAIN c : pool[c[i]].inputs # {}
        /\ request.resultant \in pool[c[Len(c)]].outputs

NonEmptyInputChainFound ==
    (Returned /\ ~cap_hit /\ request.resultant \notin request.provided
       /\ NonEmptyInputChainExists)
        => /\ result.success
           /\ result.workflow # <<>>

\* C9: when greedy returns success with utility u (no cap hit), the optimal
\* strategy on the same pool and request returns success with utility >= u.
C9_OptimalDominatesGreedy ==
    (Returned /\ algorithm = "greedy" /\ result.success /\ ~cap_hit)
        => \A order \in Enumerations(SeqToSet(services_pool)) :
              /\ ComposeOn("dijkstra", order).success
              /\ ComposeOn("dijkstra", order).utility_value >= result.utility_value

\* C9 witness: greedy has returned a workflow whose utility is strictly lower
\* than the one the optimal strategy returns on the same pool and request.
C9_Witness ==
    /\ Returned /\ algorithm = "greedy" /\ result.success
    /\ ComposeOn("dijkstra", services_pool).success
    /\ ComposeOn("dijkstra", services_pool).utility_value > result.utility_value

\* C10: when the dijkstra or astar loop is left by the deadline or the
\* iteration ceiling, the search returns a result: success = true with the best
\* solution recorded so far if a goal state was recorded, success = false
\* otherwise.
C10_CapReturnsBest ==
    (Returned /\ algorithm \in {"dijkstra", "astar"} /\ cap_hit)
        => IF search.best_solution # <<>>
           THEN /\ result.success
                /\ result.workflow = search.best_solution[1]
                /\ result.utility_value = search.best_solution_utility
           ELSE /\ ~result.success
                /\ result.workflow = <<>>

\* C10 witness: the deadline ended a search that had recorded a goal state and
\* still had states queued.
C10_Witness ==
    /\ Returned /\ algorithm = "astar" /\ cap_hit
    /\ search.best_solution # <<>>
    /\ result.success

\* C11: a fault raised while compose filters the pool, runs the strategy or
\* builds the graph does not leave compose: compose returns a result with
\* success = false whose explanation carries the error text.
C11_FaultContained ==
    [][((\E alg \in Algorithms : FilterFault(alg)) \/ StrategyFault \/ GraphFault)
        => /\ pc' = "done"
           /\ ~result'.success
           /\ result'.explanation = <<"Error">>]_vars

\* C12: two failed compose calls of the same strategy that failed in different
\* ways (goal unreachable, budget exhausted, search space exhausted) differ in
\* what the caller reads: the explanation text or the states-explored counter.
C12_FailuresDistinguishable ==
    (/\ Returned /\ prev # NoCall
     /\ OutcomeKind \notin {"success", prev[1].kind}
     /\ prev[1].kind # "success"
     /\ prev[1].algorithm = algorithm)
        => Observed(result) # prev[1].observed

\* C13: whatever rebuilds run concurrently, the composer a search runs on was
\* built from one version of the pool: its service dictionary and its indexes
\* (input index, output index, input-set table) cover the same services.
C13_ConsistentPoolVersion ==
    \A t \in DOMAIN threads :
        threads[t].pc = "searching"
            => \A c \in SeqToSet(threads[t].composer) : c.service_dict = c.indexed

\* C14: every result compose returns carries a trace whose first event is
\* `init` and whose last event is `complete` when success = true and `failed`
\* when success = false.
C14_TraceBracketed ==
    Returned
        => /\ result.algorithm_trace # <<>>
           /\ LET trace == result.algorithm_trace[1]
              IN /\ trace # <<>>
                 /\ trace[1].action = "init"
                 /\ trace[Len(trace)].action =
                        IF result.success THEN "complete" ELSE "failed"

\* the values one QoS attribute takes along a workflow
Along(wf, attr) == [i \in DOMAIN wf |-> pool[wf[i]].qos[attr]]

\* sq[1] + ... + sq[k]
RECURSIVE TotalUpTo(_, _)
TotalUpTo(sq, k) == IF k = 0 THEN 0 ELSE TotalUpTo(sq, k - 1) + sq[k]

\* sq[1] * ... * sq[k]
RECURSIVE ProductUpTo(_, _)
ProductUpTo(sq, k) == IF k = 0 THEN 1 ELSE ProductUpTo(sq, k - 1) * sq[k]

\* C15: the aggregate QoS of a returned workflow is, per dimension: the sum of
\* the services' values for response time and latency; the product of the
\* values as fractions of 100, rescaled to 0-100, for availability, reliability
\* and successability; the minimum for throughput, compliance, best practices
\* and documentation; for a workflow of one service, that service's QoS.
C15_AggregateLaws ==
    (Returned /\ result.success)
        => LET wf == result.workflow
               agg == result.qos_achieved
               n == Len(wf)
           IN /\ \A attr \in {"response_time", "latency"} :
                    agg[attr] = TotalUpTo(Along(wf, attr), n)
              /\ \A attr \in {"availability", "reliability", "successability"} :
                    \* agg / prob_den = 100 * (v1 / 100) * ... * (vn / 100)
                    /\ 100 * agg.prob_den = ProductUpTo([i \in 1..n |-> 100], n)
                    /\ agg[attr] = ProductUpTo(Along(wf, attr), n)
              /\ \A attr \in {"throughput", "compliance", "best_practices", "documentation"} :
                    /\ \A i \in 1..n : agg[attr] <= Along(wf, attr)[i]
                    /\ \E i \in 1..n : agg[attr] = Along(wf, attr)[i]
              /\ n = 1 => agg = pool[wf[1]].qos @@ [prob_den |-> 1]

\* C15 witness: the aggregate of a returned two-service workflow whose services
\* have different QoS values.
C15_Witness ==
    /\ Returned /\ result.success
    /\ Len(result.workflow) = 2
    /\ pool[result.workflow[1]].qos # pool[result.workflow[2]].qos

\* the number of constraints a QoS satisfies: <= for response time and
\* latency, >= for the other seven
SatisfiedCount(q, c) ==
    Cardinality({a \in {"response_time", "latency"} : q[a] <= c[a]})
    + Cardinality({a \in {"availability", "throughput", "successability",
                          "reliability", "compliance", "best_practices",
                          "documentation"} : q[a] >= c[a]})

\* the tiers by the number k of satisfied constraints out of nine
TierBonus(k) ==
    IF k = 9 THEN 50 ELSE IF k = 8 THEN 25 ELSE IF k \in {6, 7} THEN 10 ELSE 0

\* the penalty factor, in tenths
TierFactor(k) ==
    IF k = 9 THEN 10 ELSE IF k \in {7, 8} THEN 9 ELSE IF k \in {5, 6} THEN 7 ELSE 5

\* C16: the utility of a service satisfying k of the nine constraints is
\* (0.4 * quality + 0.6 * conformity) * factor(k) + bonus(k), with bonus 50, 25,
\* 10, 10, 0, 0 and factor 1.0, 0.9, 0.9, 0.7, 0.7, 0.5 for k = 9, 8, 7, 6, 5
\* and k <= 4, and it is never negative.
C16_UtilityTiers ==
    (Returned /\ result.success /\ Len(result.workflow) = 1)
        => LET q == pool[result.workflow[1]].qos
               c == request.qos_constraints
               k == SatisfiedCount(q, c)
           IN /\ result.utility_value =
                    (4 * quality_score(q)
                       + 6000 * conformity_score(meets_constraints(q, c))) * TierFactor(k)
                    + TierBonus(k) * UtilityScale
              /\ result.utility_value >= 0

\* C16 witness: the returned utility of a service that satisfies exactly six
\* of the nine constraints.
C16_Witness ==
    /\ Returned /\ result.success /\ Len(result.workflow) = 1
    /\ SatisfiedCount(pool[result.workflow[1]].qos, request.qos_constraints) = 6

\* the parameters available once the services of ids have run
ReachableFrom(ids) == request.provided \cup UNION {pool[sid].outputs : sid \in ids}

\* the least set of services closed under "every input is available",
\* computed by iteration from ids
RECURSIVE LeastClosed(_)
LeastClosed(ids) ==
    LET more == {sid \in DOMAIN pool : pool[sid].inputs \subseteq ReachableFrom(ids)}
    IN IF more = ids THEN ids ELSE LeastClosed(more)

\* C17: the forward closure of the filter is the least fixed point: a service
\* of the pool is forward-reachable exactly when its whole input set lies in
\* request.provided united with the outputs of the forward-reachable services,
\* a service without inputs included.
C17_ForwardLeastFixedPoint ==
    LET forward_ids == ForwardClosure.ids
    IN /\ \A sid \in DOMAIN pool :
              sid \in forward_ids <=> pool[sid].inputs \subseteq ReachableFrom(forward_ids)
       /\ ForwardClosure.params = ReachableFrom(forward_ids)
       /\ forward_ids = LeastClosed({})

\* the parameters needed once the services of ids are admitted
NeededFor(ids) ==
    {request.resultant}
        \cup UNION {pool[sid].inputs \ request.provided : sid \in ids}

\* the backward-useful services: every producer of a needed parameter
RECURSIVE LeastUseful(_)
LeastUseful(ids) ==
    LET more == {sid \in DOMAIN pool : pool[sid].outputs \cap NeededFor(ids) # {}}
    IN IF more = ids THEN ids ELSE LeastUseful(more)

\* the intersection of the two sets if it has at least three ids, else the union
IntersectionOrUnion(forward_ids, backward_ids) ==
    IF Cardinality(forward_ids \cap backward_ids) >= 3
    THEN forward_ids \cap backward_ids
    ELSE forward_ids \cup backward_ids

\* C18: when the target is forward-reachable, the filter returns the
\* intersection of the forward-reachable and the backward-useful service ids
\* if that intersection has at least three ids, and their union otherwise.
C18_IntersectionOrUnion ==
    (pc = "filtered" /\ request.resultant \in ReachableFrom(LeastClosed({})))
        => SeqToSet(services_pool) = IntersectionOrUnion(LeastClosed({}), LeastUseful({}))

\* the same rule over the forward ids as the filter computes them
FilterRuleOnComputedClosure ==
    (pc = "filtered" /\ request.resultant \in ForwardClosure.params)
        => SeqToSet(services_pool) = IntersectionOrUnion(ForwardClosure.ids, LeastUseful({}))

\* a filtered pool in which the intersection has three ids and the union four
FilterRuleSeparates ==
    /\ pc = "filtered" /\ request.resultant \in ForwardClosure.params
    /\ Cardinality(ForwardClosure.ids \cap LeastUseful({})) = 3
    /\ Cardinality(ForwardClosure.ids \cup LeastUseful({})) = 4
    /\ Len(services_pool) = 3

\* the cycle-free chains of candidate-pool services that are applicable in
\* order from request.provided and reach the target
ReachingChains ==
    {c \in Chains :
        /\ SeqToSet(c) \subseteq SeqToSet(services_pool)
        /\ ExecutableInOrder(c)
        /\ request.resultant \in request.provided \cup OutputsOf(c, Len(c))}

\* the minimum per-service utility of a chain
ChainBottleneck(c) ==
    LET u(i) == service_utility(c[i])
    IN u(CHOOSE i \in DOMAIN c : \A j \in DOMAIN c : u(i) <= u(j))

\* the utility returned is the bottleneck of a reaching chain that no reaching
\* chain exceeds
ReturnsMaxBottleneck ==
    /\ \E c \in ReachingChains : ChainBottleneck(c) = result.utility_value
    /\ \A c \in ReachingChains : ChainBottleneck(c) <= result.utility_value

\* C19 as stated: with neither the iteration ceiling nor the deadline hit, the
\* utility the dijkstra strategy returns is the maximum bottleneck utility over
\* the cycle-free chains of candidate-pool services applicable in order from
\* request.provided that reach the target.
C19_MaxBottleneck ==
    (Returned /\ algorithm = "dijkstra" /\ ~cap_hit /\ ReachingChains # {})
        => ReturnsMaxBottleneck

\* C19 amended: the same for a request whose target is not among its provided
\* parameters.
C19_MaxBottleneckTargetNotProvided ==
    (/\ Returned /\ algorithm = "dijkstra" /\ ~cap_hit /\ ReachingChains # {}
     /\ request.resultant \notin request.provided)
        => result.success /\ ReturnsMaxBottleneck

\* C19 witness: dijkstra has returned, no cap hit, on a request whose target is
\* not provided and for which two reaching chains of different bottleneck
\* utility exist.
C19_Witness ==
    /\ Returned /\ algorithm = "dijkstra" /\ ~cap_hit
    /\ request.resultant \notin request.provided
    /\ \E c, d \in ReachingChains : ChainBottleneck(c) < ChainBottleneck(d)

\* C20: with no cap hit, the astar strategy and the dijkstra strategy return
\* the same success flag and the same utility on the same pool and request,
\* whatever the order of the candidate list.
C20_AStarAgreesWithDijkstra ==
    (Returned /\ algorithm = "astar" /\ ~cap_hit)
        => \A order \in Enumerations(SeqToSet(services_pool)) :
              /\ ComposeOn("dijkstra", order).success = result.success
              /\ ComposeOn("dijkstra", order).utility_value = result.utility_value

\* C20 witness: astar has returned a successful workflow, no cap hit, on a
\* candidate list with two reaching chains of different bottleneck utility.
C20_Witness ==
    /\ Returned /\ algorithm = "astar" /\ ~cap_hit /\ result.success
    /\ \E c, d \in ReachingChains : ChainBottleneck(c) < ChainBottleneck(d)

\* the parameters available before the last service of a path was applied
AvailableBefore(path) == request.provided \cup OutputsOf(path, Len(path) - 1)

\* the outputs of the last service of a path that were not available before it
NewlyContributed(path) == pool[path[Len(path)]].outputs \ AvailableBefore(path)

\* C21: the h of a successor state carries a novelty term, the fraction of the
\* applied service's outputs that were not available before the service was
\* applied; of two successors whose services are otherwise alike, the one
\* contributing a new parameter has a strictly larger h than one contributing
\* none.
C21_NoveltyTerm ==
    (algorithm = "astar" /\ pc = "search")
        => /\ \A e \in search.priority_queue :
                 e.path # <<>>
                    => /\ e.h_score.nov_num = Cardinality(NewlyContributed(e.path))
                       /\ e.h_score.nov_den =
                             Max2(Cardinality(pool[e.path[Len(e.path)]].outputs), 1)
           /\ \A e, o \in search.priority_queue :
                 (/\ e.path # <<>> /\ o.path # <<>>
                  /\ e.h_score.units = o.h_score.units
                  /\ e.h_score.rt_num = o.h_score.rt_num
                  /\ NewlyContributed(e.path) # {}
                  /\ NewlyContributed(o.path) = {})
                    => ScoreGreater(services_pool, e.h_score, o.h_score)

\* the unused services of the candidate list whose inputs are available
UnusedApplicable(path, avail) ==
    {sid \in SeqToSet(services_pool) :
        sid \notin SeqToSet(path) /\ pool[sid].inputs \subseteq avail}

\* utility plus 100 if the outputs contain the target
CandidateScore(sid) ==
    service_utility(sid)
    + (IF request.resultant \in pool[sid].outputs THEN 100 * UtilityScale ELSE 0)

\* C22: a greedy step appends to the path one applicable, unused candidate of
\* maximal score (utility plus 100 if its outputs contain the target) among the
\* applicable unused candidates, and leaves the services chosen before in place.
C22_GreedyChoice ==
    [][(pc = "search" /\ algorithm = "greedy" /\ pc' = "search")
          => \/ search'.path = search.path
             \/ \E sid \in UnusedApplicable(search.path, search.available_params) :
                   /\ search'.path = Append(search.path, sid)
                   /\ \A o \in UnusedApplicable(search.path, search.available_params) :
                         CandidateScore(o) <= CandidateScore(sid)]_vars

\* C22 witness: greedy has chosen its first service although a candidate of
\* strictly lower score stood before it in the candidate list.
C22_Witness ==
    /\ pc = "search" /\ algorithm = "greedy" /\ Len(search.path) = 1
    /\ \E i, j \in DOMAIN services_pool :
          /\ i < j /\ services_pool[j] = search.path[1]
          /\ services_pool[i] \in UnusedApplicable(<<>>, request.provided)
          /\ CandidateScore(services_pool[i]) < CandidateScore(services_pool[j])

\* the greedy strategy was run by this call and has returned
GreedyReturned == Returned /\ algorithm = "greedy" /\ services_pool # <<>>

\* C23: the greedy strategy stops after at most 50 steps with a workflow of at
\* most 50 services, and it returns failure exactly when it stops with the
\* target absent from the available parameters, which is at a dead end (no
\* applicable unused service) or at the step limit.
C23_GreedyTerminates ==
    /\ (algorithm = "greedy" /\ pc = "search") => search.iterations <= 50
    /\ GreedyReturned
          => /\ search.iterations <= 50
             /\ Len(search.path) <= 50
             /\ Len(result.workflow) <= 50
             /\ ~GreedyResult(search).success
                   <=> request.resultant \notin search.available_params
             /\ request.resultant \notin request.provided
                   => (~result.success
                          <=> request.resultant \notin search.available_params)
             /\ request.resultant \notin search.available_params
                   => \/ UnusedApplicable(search.path, search.available_params) = {}
                      \/ search.iterations = 50

\* C23 witness: greedy has returned failure at the step limit, the target
\* absent and applicable unused services left.
C23_Witness ==
    /\ GreedyReturned /\ ~result.success
    /\ search.iterations = 50
    /\ request.resultant \notin search.available_params
    /\ UnusedApplicable(search.path, search.available_params) # {}

\* the trace of a returned result has a goal_found event before its last event
GoalFoundEmitted(tr) == \E i \in 1..(Len(tr) - 1) : tr[i].action = "goal_found"

\* C24: the trace of a strategy run ends in `complete` exactly when a
\* goal_found event was emitted before: no goal_found is followed by `failed`,
\* and no trace ends in `complete` without a goal_found, also when the target
\* is among the provided parameters.
C24_CompleteIffGoalFound ==
    (Returned /\ result.algorithm_trace # <<>>)
        => LET tr == result.algorithm_trace[1]
           IN /\ tr[Len(tr)].action \in {"complete", "failed"}
              /\ tr[Len(tr)].action = "complete" <=> GoalFoundEmitted(tr)

\* the parameter sets whose successors the dijkstra loop generates from the
\* search state st on, in the order of the iterations: a popped state is
\* expanded unless it is stale or satisfies the goal
RECURSIVE DijkstraExpansions(_, _)
DijkstraExpansions(sp, st) ==
    IF st.priority_queue = {} THEN <<>>
    ELSE LET cur == HeapTop(st.priority_queue)
             stale == st.best_utilities[cur.params] > cur.utility
             goal == request.resultant \in cur.params
         IN (IF ~stale /\ ~goal THEN <<cur.params>> ELSE <<>>)
                \o DijkstraExpansions(sp, DijkstraIteration(sp, st))

\* the parameter sets reachable from request.provided with candidate services
ReachableSets ==
    {request.provided}
        \cup {request.provided \cup OutputsOf(c, Len(c)) :
                 c \in {d \in Chains : /\ SeqToSet(d) \subseteq SeqToSet(services_pool)
                                       /\ ExecutableInOrder(d)}}

\* number of times P occurs in the sequence sq
Occurrences(sq, P) == Cardinality({i \in DOMAIN sq : sq[i] = P})

\* a dijkstra search is about to start
DijkstraStarts == algorithm = "dijkstra" /\ pc = "search" /\ search.iterations = 0

\* C25 as stated: in a dijkstra search every parameter set has its successors
\* generated at most once, so the number of expansions does not exceed the
\* number of parameter sets reachable from request.provided.
C25_ExpandedOnce ==
    DijkstraStarts
        => LET ex == DijkstraExpansions(services_pool, search)
           IN /\ \A P \in SeqToSet(ex) : Occurrences(ex, P) = 1
              /\ Len(ex) <= Cardinality(ReachableSets)

\* C25 amended: every parameter set other than request.provided has its
\* successors generated at most once, request.provided at most twice, and the
\* number of expansions does not exceed the number of reachable parameter sets.
C25_ExpandedOnceBeyondProvided ==
    DijkstraStarts
        => LET ex == DijkstraExpansions(services_pool, search)
           IN /\ \A P \in SeqToSet(ex) :
                    Occurrences(ex, P) <= IF P = request.provided THEN 2 ELSE 1
              /\ Len(ex) <= Cardinality(ReachableSets)

\* C25 witness: a dijkstra search that expands a parameter set, other than
\* request.provided, to which two different chains lead.
C25_Witness ==
    /\ DijkstraStarts
    /\ \E c, d \in Chains :
          /\ c # d
          /\ SeqToSet(c) \cup SeqToSet(d) \subseteq SeqToSet(services_pool)
          /\ ExecutableInOrder(c) /\ ExecutableInOrder(d)
          /\ OutputsOf(c, Len(c)) \cup request.provided
                = OutputsOf(d, Len(d)) \cup request.provided
          /\ OutputsOf(c, Len(c)) \cup request.provided # request.provided
          /\ \E i \in DOMAIN DijkstraExpansions(services_pool, search) :
                DijkstraExpansions(services_pool, search)[i]
                    = OutputsOf(c, Len(c)) \cup request.provided

\* C26: under every interleaving of start requests at most one annotation
\* worker is running, and a request that finds a worker alive is answered 409
\* and starts none.
C26_OneWorker ==
    /\ Cardinality({r \in DOMAIN threads : threads[r].worker = "alive"}) <= 1
    /\ \A r \in DOMAIN threads :
          threads[r].response = 409 => threads[r].worker \in {"none", "finished"}

\* the dijkstra strategy run on the whole pool, listed in the order full
UnfilteredDijkstra(full) ==
    ComposeTail(DijkstraResult(DijkstraSearch(full, DijkstraInit)))

\* C27: with no cap hit, the dijkstra strategy on the candidate list of the
\* filter gives the same success flag and the same utility as the dijkstra
\* strategy on the whole pool.
C27_FilterPreservesOptimum ==
    (Returned /\ algorithm = "dijkstra" /\ ~cap_hit)
        => \A full \in Enumerations(DOMAIN pool) :
              /\ UnfilteredDijkstra(full).success = result.success
              /\ UnfilteredDijkstra(full).utility_value = result.utility_value

\* the states the dijkstra loop pops from the search state st on, in the order
\* of the iterations
RECURSIVE DijkstraPops(_, _)
DijkstraPops(sp, st) ==
    IF st.priority_queue = {} THEN <<>>
    ELSE <<HeapTop(st.priority_queue)>> \o DijkstraPops(sp, DijkstraIteration(sp, st))

\* number of goal_found events of a trace
GoalFoundCount(tr) == Cardinality({i \in DOMAIN tr : tr[i].action = "goal_found"})

\* C28: in a dijkstra search the utilities of the states popped after the
\* initial state do not increase, the best solution once recorded is never
\* replaced, and at most one goal_found event is emitted.
C28_FirstGoalIsBest ==
    [][/\ DijkstraStarts
          => LET pops == DijkstraPops(services_pool, search)
             IN \A i, j \in DOMAIN pops :
                   (1 < i /\ i < j) => pops[j].utility <= pops[i].utility
       /\ (pc = "search" /\ algorithm = "dijkstra" /\ pc' = "search"
              /\ search.best_solution # <<>>)
          => /\ search'.best_solution = search.best_solution
             /\ search'.best_solution_utility = search.best_solution_utility
       /\ (pc = "search" /\ algorithm = "dijkstra")
          => GoalFoundCount(search'.trace) <= 1]_vars

\* C28 witness: a dijkstra search has returned in which two goal states of
\* different utility were popped.
C28_Witness ==
    /\ Returned /\ algorithm = "dijkstra" /\ result.success
    /\ LET pops == DijkstraPops(services_pool, DijkstraInit)
       IN \E i, j \in DOMAIN pops :
             /\ i < j
             /\ request.resultant \in pops[i].params
             /\ request.resultant \in pops[j].params
             /\ pops[j].utility < pops[i].utility

\* a dijkstra or astar search is running
QueueSearchRuns == pc = "search" /\ algorithm \in {"dijkstra", "astar"}

\* one push per strict improvement: at most one per reachable parameter set and
\* utility value of a candidate service
PushBound ==
    Cardinality(ReachableSets)
        * Cardinality({service_utility(sid) : sid \in SeqToSet(services_pool)})

\* C29: a dijkstra or astar search ends although neither the iteration ceiling
\* nor the deadline is reached: states are pushed only on a strict improvement
\* of the best utility of their parameter set, so the pushes are bounded, the
\* ceiling is never met and the queue runs empty.
C29_QueueRunsEmpty ==
    /\ [](QueueSearchRuns
            => /\ search.counter <= PushBound
               /\ search.iterations <= 1 + PushBound
               /\ search.iterations < max_iterations)
    /\ (QueueSearchRuns ~> (pc = "done"))
    /\ []((Returned /\ algorithm \in {"dijkstra", "astar"}
              /\ services_pool # <<>> /\ ~cap_hit)
            => search.priority_queue = {})

\* C29 witness: a search has returned with an empty queue, no cap hit, after
\* refusing at least one successor.
C29_Witness ==
    /\ Returned /\ algorithm \in {"dijkstra", "astar"} /\ ~cap_hit
    /\ services_pool # <<>>
    /\ search.priority_queue = {}
    /\ search.counter >= 2
    /\ \E c, d \in Chains :
          /\ c # d
          /\ SeqToSet(c) \cup SeqToSet(d) \subseteq SeqToSet(services_pool)
          /\ ExecutableInOrder(c) /\ ExecutableInOrder(d)
          /\ OutputsOf(c, Len(c)) \cup request.provided
                = OutputsOf(d, Len(d)) \cup request.provided

\* C30: when request.resultant is among request.provided, compose returns
\* success = false with an empty workflow under every strategy: the empty path
\* that satisfies the goal test is never reported as a composition, and success
\* is true only if the returned service list is not empty.
C30_ProvidedTargetFails ==
    /\ (Returned /\ request.resultant \in request.provided)
          => /\ ~result.success
             /\ result.workflow = <<>>
             /\ result.services = <<>>
    /\ Returned => (result.success <=> result.services # <<>>)

\* C30 witness: a strategy has run to its return, on a non-empty candidate
\* list, for a request whose target is provided.
C30_Witness ==
    /\ Returned /\ request.resultant \in request.provided
    /\ services_pool # <<>> /\ ~cap_hit
    /\ \E sid \in SeqToSet(services_pool) :
          /\ pool[sid].inputs \subseteq request.provided
          /\ request.resultant \in pool[sid].outputs

====
